---- MODULE Spec2Model ----
(***************************************************************************)
(* porkpy: a command-line client for the Porkbun DNS API.                  *)
(*                                                                         *)
(* One run of the program is one command (pricing, auth, domain info,      *)
(* domain create, domain edit, domain delete) or one call of a method of   *)
(* PorkAuth / PorkRecord.  The state records the environment the run sees  *)
(* (files on disk, environment variables) and everything the run did: the  *)
(* files it opened, the credentials it resolved, the POST requests it      *)
(* sent, what it printed or returned, the exception it raised and the      *)
(* exit status of the process.                                             *)
(*                                                                         *)
(* A Python str is a sequence of atoms; the only atom whose identity       *)
(* matters is ":" (str.split).  Python's None is the value None below,     *)
(* which is not a str of the model.  A dict is a function whose DOMAIN is  *)
(* its key set.                                                            *)
(***************************************************************************)
EXTENDS Integers, Sequences, FiniteSets

VARIABLES
    files,      \* the file system: path -> what is there
    environ,    \* os.environ restricted to PORKPY_API / PORKPY_SECRET
    op,         \* the operation that ran ("start" before it runs)
    args,       \* the arguments it ran with
    opened,     \* set of paths opened with open()
    auth,       \* {} before PorkAuth is constructed, else {AUTH_PAYLOAD}
    requests,   \* the POSTs issued, in order: [url, data]
    stdout,     \* what was printed, in order
    ret,        \* {} or {value returned by a method called directly}
    raised,     \* "none" or the exception that ended the run
    exit        \* process exit status; NoExit while none has been produced

vars == <<files, environ, op, args, opened, auth, requests, stdout, ret, raised, exit>>

----------------------------------------------------------------------------
(* Bounds *)

MaxSecretLen == 3      \* longest --secrets string enumerated
MaxTlds == 2           \* most --tld flags on one pricing command line

----------------------------------------------------------------------------
(* Values *)

None == <<"None">>
JsonNull == <<"null">>
NoExit == -1

Chars == {"k", ":"}

RECURSIVE StrsOfLen(_)
StrsOfLen(n) ==
    IF n = 0 THEN {<<>>}
    ELSE {Append(s, c) : s \in StrsOfLen(n - 1), c \in Chars}

SecretStrings == UNION {StrsOfLen(n) : n \in 0..MaxSecretLen}

EmptyDict == [k \in {} |-> None]

\* {**a, **b}
Merge(a, b) ==
    [k \in (DOMAIN a) \cup (DOMAIN b) |-> IF k \in DOMAIN b THEN b[k] ELSE a[k]]

\* json.dumps of a dict of str / None values: None is written as null
JsonDumps(d) == [k \in DOMAIN d |-> IF d[k] = None THEN JsonNull ELSE d[k]]

\* bool(x) of an Optional[str]
Truthy(x) == x # None /\ x # <<>>

----------------------------------------------------------------------------
(* str.split(":") *)

RECURSIVE Split(_)
Split(s) ==
    IF \A i \in 1..Len(s) : s[i] # ":" THEN <<s>>
    ELSE LET i == CHOOSE j \in 1..Len(s) :
                    s[j] = ":" /\ \A m \in 1..(j - 1) : s[m] # ":"
         IN  <<SubSeq(s, 1, i - 1)>> \o Split(SubSeq(s, i + 1, Len(s)))

----------------------------------------------------------------------------
(* The environment of a run *)

API_KEY == "apikey"
SECRET_KEY == "secretapikey"

DEFAULT_FILE == <<"porkpy.json">>
OTHER_FILE == <<"other.json">>
Paths == {DEFAULT_FILE, OTHER_FILE}

FileCreds == [apikey |-> <<"ak_1">>, secretapikey |-> <<"sk_1">>]
OtherCreds == [apikey |-> <<"ak_2">>, secretapikey |-> <<"sk_2">>]

Restrict(d, S) == [k \in S |-> d[k]]

\* a file is missing, or holds text that is not JSON, or holds a JSON object
NoFile == [exists |-> FALSE, json |-> FALSE, data |-> EmptyDict]
BadJsonFile == [exists |-> TRUE, json |-> FALSE, data |-> EmptyDict]
JsonFile(d) == [exists |-> TRUE, json |-> TRUE, data |-> d]

DefaultFileStates ==
    {NoFile, BadJsonFile} \cup {JsonFile(Restrict(FileCreds, S)) : S \in SUBSET {API_KEY, SECRET_KEY}}

EnvStates ==
    [PORKPY_API : {None, <<"ak_env">>}, PORKPY_SECRET : {None, <<"sk_env">>}]

\* what the Porkbun server does with a request
Upstream == {"SUCCESS", "ERROR", "DOWN"}

----------------------------------------------------------------------------
(* The outcome of a run, built up by the handlers *)

Start ==
    [opened |-> {}, auth |-> {}, requests |-> <<>>, stdout |-> <<>>,
     ret |-> {}, raised |-> "none", exit |-> NoExit]

\* an exception nobody catches: traceback, exit status 1
Uncaught(r, e) == [r EXCEPT !.raised = e, !.exit = 1]

\* click.UsageError and its subclasses: usage message, exit status 2
UsageError(r, e) == [r EXCEPT !.raised = e, !.exit = 2]

\* print(x)
Echo(r, x) == [r EXCEPT !.stdout = Append(@, x)]

\* the command callback returned: click's standalone mode exits with 0
Returned(r) == [r EXCEPT !.exit = 0]

Url(route, path) == [route |-> route, path |-> path]

\* requests.post(url, data=...) was attempted
Posted(r, url, body) == [r EXCEPT !.requests = Append(@, [url |-> url, data |-> body])]

\* response.json() of the server's answer
Response(net) == [status |-> net]

----------------------------------------------------------------------------
(* PorkAuth.__init__ *)

PorkAuth(r, file, secrets) ==
    IF Truthy(secrets)
    THEN LET parts == Split(secrets)
         IN  IF Len(parts) # 2
             THEN Uncaught(r, "ValueError")
             ELSE [r EXCEPT !.auth = {[apikey |-> parts[1], secretapikey |-> parts[2]]}]
    ELSE IF Truthy(file)
    THEN LET f == files[file]
             o == [r EXCEPT !.opened = @ \cup {file}]
         IN  IF ~f.exists THEN Uncaught(o, "FileNotFoundError")
             ELSE IF ~f.json THEN Uncaught(o, "JSONDecodeError")
             ELSE [o EXCEPT !.auth = {f.data}]
    ELSE [r EXCEPT !.auth = {[secretapikey |-> environ.PORKPY_SECRET,
                              apikey |-> environ.PORKPY_API]}]

AuthPayload(r) == CHOOSE a \in r.auth : TRUE

\* PorkAuth.auth_str
auth_str(r) == JsonDumps(AuthPayload(r))

\* get_json_response: one POST; a dead connection raises out of requests.post
get_json_response(r, url, body, net) ==
    IF net = "DOWN" THEN Uncaught(Posted(r, url, body), "ConnectionError")
    ELSE Posted(r, url, body)

\* PorkAuth.test_auth
test_auth(r, net) == get_json_response(r, Url("/ping", <<>>), {JsonDumps(AuthPayload(r))}, net)

\* a step of a handler runs only if no exception has been raised before it
Bind(r, F(_)) == IF r.raised # "none" THEN r ELSE F(r)

\* the value a method returned: json.dumps(response), or a fixed text
Json(d) == [json |-> d]
Text(t) == [text |-> t]
Return(r, v) == IF r.raised # "none" THEN r ELSE [r EXCEPT !.ret = {v}]

\* response: str = domain.method(...); print(response)
EchoRet(r) ==
    IF r.raised # "none" THEN r
    ELSE [r EXCEPT !.stdout = Append(@, CHOOSE v \in r.ret : TRUE), !.ret = {}]

----------------------------------------------------------------------------
(* PorkRecord *)

\* PorkRecord.retrieve
retrieve(r, domain, type, subdomain, net) ==
    LET url == IF type # None /\ subdomain # None
               THEN Url("/dns/retrieveByNameType", <<domain, type, subdomain>>)
               ELSE Url("/dns/retrieve", <<domain>>)
    IN  Return(get_json_response(r, url, {auth_str(r)}, net), Json(Response(net)))

\* PorkRecord.retrieve_ssl
retrieve_ssl(r, domain, net) ==
    Return(get_json_response(r, Url("/ssl/retrieve", <<domain>>), {auth_str(r)}, net),
           Json(Response(net)))

\* the dict comprehension of create_record: the fields that are not None
CreateFields(type, content, name, ttl, priority) ==
    LET f == [type |-> type, content |-> content, name |-> name,
              ttl |-> ttl, prio |-> priority]
    IN  Restrict(f, {k \in DOMAIN f : f[k] # None})

\* PorkRecord.create_record
create_record(r, domain, type, content, name, ttl, priority, net) ==
    LET payload == Merge(AuthPayload(r), CreateFields(type, content, name, ttl, priority))
    IN  Return(get_json_response(r, Url("/dns/create", <<domain>>), {JsonDumps(payload)}, net),
               Json(Response(net)))

EDIT_RECORD_MSG ==
    "Edit routes currently not working. To edit please pull down the pre-existing record, delete it, then create it with modified values."

\* PorkRecord.edit_record
edit_record(r) == Return(r, Text(EDIT_RECORD_MSG))

\* PorkRecord.delete_record: falls off the end (returns None) when id is None
delete_record(r, domain, id, net) ==
    IF id # None
    THEN Return(get_json_response(r, Url("/dns/delete", <<domain, id>>), {auth_str(r)}, net),
                Json(Response(net)))
    ELSE Return(r, Text("None"))

----------------------------------------------------------------------------
(* click: option defaults and the checks made before a callback runs *)

NAME_DEFAULT == <<>>
TTL_DEFAULT == <<"300">>
PRIORITY_DEFAULT == <<"0">>

\* an option that was not given takes its default
OrDefault(v, d) == IF v = None THEN d ELSE v

\* --file: click.Path(exists=True), default "porkpy.json"
ClickFile(fileOpt) == OrDefault(fileOpt, DEFAULT_FILE)
FileRejected(fileOpt) == ~files[ClickFile(fileOpt)].exists

\* required=True options that were not given
Missing(required) == \E v \in required : v = None

----------------------------------------------------------------------------
(* The commands *)

TLDs == {"com", "net", "org"}
Prices == {1, 2}

\* the for loop of pricing over the requested TLDs
RECURSIVE PricingLoop(_, _, _)
PricingLoop(output, tld, json_resp) ==
    IF tld = <<>> THEN output
    ELSE LET d == Head(tld)
         IN  PricingLoop(
                 IF d \in DOMAIN json_resp.pricing
                 THEN Merge(output, [k \in {"pricing"} |-> [t \in {d} |-> json_resp.pricing[d]]])
                 ELSE output,
                 Tail(tld), json_resp)

\* pricing
pricing(tld, net, upstreamPricing) ==
    LET json_resp == [status |-> net, pricing |-> upstreamPricing]
        g == get_json_response(Start, Url("/pricing/get", <<>>), {}, net)
        body(r) ==
            IF json_resp.status = "SUCCESS"
            THEN IF Len(tld) = 0
                 THEN Echo(r, Json(json_resp))
                 ELSE Echo(r, Json(PricingLoop([status |-> json_resp.status], tld, json_resp)))
            ELSE Echo(Echo(r, Text("FIXME: API call was unsuccessful.")), Json(EmptyDict))
    IN  Bind(Bind(g, body), Returned)

\* authorized
authorized(fileOpt, secrets, auth_string, net) ==
    IF FileRejected(fileOpt) THEN UsageError(Start, "UsageError")
    ELSE LET body(r) ==
                 IF auth_string THEN Echo(r, Json(auth_str(r)))
                 ELSE Bind(test_auth(r, net), LAMBDA x : Echo(x, Json(Response(net))))
         IN  Bind(Bind(PorkAuth(Start, ClickFile(fileOpt), secrets), body), Returned)

\* the first check with its subdomain half lost
InfoOptionsRejected_typeOnly(type, subdomain) ==
    type = None /\ type # subdomain

\* the first check of domain_retrieve_records
InfoOptionsRejected(type, subdomain) ==
    (type = None \/ subdomain = None) /\ type # subdomain

\* domain_retrieve_records
domain_retrieve_records(domain, ssl, fileOpt, secrets, type, subdomain, net) ==
    IF Missing({domain}) \/ FileRejected(fileOpt) THEN UsageError(Start, "UsageError")
    ELSE IF InfoOptionsRejected(type, subdomain)
    THEN UsageError(Start, IF type = None THEN "BadOptionUsage:type"
                                          ELSE "BadOptionUsage:subdomain")
    ELSE IF ssl THEN UsageError(Start, "BadOptionUsage:ssl")
    ELSE LET body(r) ==
                 IF ssl THEN EchoRet(retrieve_ssl(r, domain, net))
                 ELSE IF type # None /\ subdomain # None
                 THEN EchoRet(retrieve(r, domain, type, subdomain, net))
                 ELSE EchoRet(retrieve(r, domain, None, None, net))
         IN  Bind(Bind(PorkAuth(Start, ClickFile(fileOpt), secrets), body), Returned)

\* domain_create_record
domain_create_record(domain, fileOpt, secrets, type, content, nameOpt, ttlOpt, priorityOpt, net) ==
    IF Missing({domain, type, content}) \/ FileRejected(fileOpt)
    THEN UsageError(Start, "UsageError")
    ELSE LET body(r) ==
                 EchoRet(create_record(r, domain, type, content,
                                       OrDefault(nameOpt, NAME_DEFAULT),
                                       OrDefault(ttlOpt, TTL_DEFAULT),
                                       OrDefault(priorityOpt, PRIORITY_DEFAULT), net))
         IN  Bind(Bind(PorkAuth(Start, ClickFile(fileOpt), secrets), body), Returned)

EDIT_COMMAND_MSG ==
    "Edit route currently not working, please use the Porkbun website to edit pre-existing records."

\* the edit command with its disabled body switched back on
domain_edit_records_enabled(domain, fileOpt, type, content) ==
    IF Missing({domain, type, content}) \/ FileRejected(fileOpt)
    THEN UsageError(Start, "UsageError")
    ELSE Bind(Bind(PorkAuth(Start, ClickFile(fileOpt), None),
                   LAMBDA r : EchoRet(edit_record(r))),
              Returned)

\* domain_edit_records
domain_edit_records(domain, fileOpt, type, content) ==
    IF Missing({domain, type, content}) \/ FileRejected(fileOpt)
    THEN UsageError(Start, "UsageError")
    ELSE Returned(Echo(Start, Text(EDIT_COMMAND_MSG)))

\* the delete command without its --confirm check
domain_delete_records_unconfirmed(domain, fileOpt, secrets, id, confirm, net) ==
    IF Missing({domain}) \/ FileRejected(fileOpt) THEN UsageError(Start, "UsageError")
    ELSE IF id = None THEN UsageError(Start, "BadOptionUsage:id")
    ELSE LET body(r) == EchoRet(delete_record(r, domain, id, net))
         IN  Bind(Bind(PorkAuth(Start, ClickFile(fileOpt), secrets), body), Returned)

\* domain_delete_records
domain_delete_records(domain, fileOpt, secrets, id, confirm, net) ==
    IF Missing({domain}) \/ FileRejected(fileOpt) THEN UsageError(Start, "UsageError")
    ELSE IF id = None THEN UsageError(Start, "BadOptionUsage:id")
    ELSE IF confirm = FALSE THEN UsageError(Start, "BadOptionUsage:confirm")
    ELSE LET body(r) == EchoRet(delete_record(r, domain, id, net))
         IN  Bind(Bind(PorkAuth(Start, ClickFile(fileOpt), secrets), body), Returned)

----------------------------------------------------------------------------
(* The inputs of a run *)

DOMAIN_NAME == <<"example.com">>
DomainOpts == {None, DOMAIN_NAME}
FileOpts == {None} \cup Paths
SecretOpts == {None} \cup SecretStrings
CmdSecretOpts == {None, <<"k", ":", "k">>}
TypeOpts == {None, <<"A">>}
SubdomainOpts == {None, <<>>, <<"www">>}
ContentOpts == {None, <<"1.2.3.4">>}
NameOpts == {None, <<"www">>}
TtlOpts == {None, <<"600">>}
PriorityOpts == {None, <<"10">>}
IdOpts == {None, <<"42">>}

RECURSIVE TldsOfLen(_)
TldsOfLen(n) ==
    IF n = 0 THEN {<<>>}
    ELSE {Append(s, t) : s \in TldsOfLen(n - 1), t \in TLDs}

TldFilters == UNION {TldsOfLen(n) : n \in 0..MaxTlds}
PriceTables == UNION {[S -> Prices] : S \in SUBSET TLDs}

----------------------------------------------------------------------------
(* The state machine: a run starts in Init and performs one operation *)

Init ==
    /\ files \in {f \in [Paths -> DefaultFileStates \cup {JsonFile(OtherCreds)}] :
                     /\ f[DEFAULT_FILE] \in DefaultFileStates
                     /\ f[OTHER_FILE] = JsonFile(OtherCreds)}
    /\ environ \in EnvStates
    /\ op = "start"
    /\ args = EmptyDict
    /\ opened = Start.opened
    /\ auth = Start.auth
    /\ requests = Start.requests
    /\ stdout = Start.stdout
    /\ ret = Start.ret
    /\ raised = Start.raised
    /\ exit = Start.exit

Finish(o, a, r) ==
    /\ op' = o
    /\ args' = a
    /\ opened' = r.opened
    /\ auth' = r.auth
    /\ requests' = r.requests
    /\ stdout' = r.stdout
    /\ ret' = r.ret
    /\ raised' = r.raised
    /\ exit' = r.exit
    /\ UNCHANGED <<files, environ>>

\* porkpy pricing [-t TLD]...
Pricing ==
    /\ op = "start"
    /\ \E tld \in TldFilters, net \in Upstream, up \in PriceTables :
           Finish("pricing", [tld |-> tld, net |-> net, upstream |-> up],
                  pricing(tld, net, up))

\* porkpy auth [-f FILE] [-s SECRETS] [-a]
Authorized ==
    /\ op = "start"
    /\ \E file \in FileOpts, secrets \in SecretOpts, auth_string \in BOOLEAN, net \in Upstream :
           Finish("auth",
                  [file |-> file, secrets |-> secrets, auth_string |-> auth_string, net |-> net],
                  authorized(file, secrets, auth_string, net))

\* porkpy domain info
DomainInfo ==
    /\ op = "start"
    /\ \E domain \in DomainOpts, ssl \in BOOLEAN, file \in FileOpts, secrets \in CmdSecretOpts,
          type \in TypeOpts, subdomain \in SubdomainOpts, net \in Upstream :
           Finish("info",
                  [domain |-> domain, ssl |-> ssl, file |-> file, secrets |-> secrets,
                   type |-> type, subdomain |-> subdomain, net |-> net],
                  domain_retrieve_records(domain, ssl, file, secrets, type, subdomain, net))

\* porkpy domain create
DomainCreate ==
    /\ op = "start"
    /\ \E domain \in DomainOpts, file \in FileOpts, secrets \in CmdSecretOpts,
          type \in TypeOpts, content \in ContentOpts, name \in NameOpts,
          ttl \in TtlOpts, priority \in PriorityOpts, net \in Upstream :
           Finish("create",
                  [domain |-> domain, file |-> file, secrets |-> secrets, type |-> type,
                   content |-> content, name |-> name, ttl |-> ttl, priority |-> priority,
                   net |-> net],
                  domain_create_record(domain, file, secrets, type, content, name, ttl,
                                       priority, net))

\* porkpy domain edit
DomainEdit ==
    /\ op = "start"
    /\ \E domain \in DomainOpts, id \in IdOpts, file \in FileOpts, secrets \in CmdSecretOpts,
          type \in TypeOpts, subdomain \in SubdomainOpts, content \in ContentOpts,
          name \in NameOpts :
           Finish("edit",
                  [domain |-> domain, id |-> id, file |-> file, secrets |-> secrets,
                   type |-> type, subdomain |-> subdomain, content |-> content,
                   name |-> name],
                  domain_edit_records(domain, file, type, content))

\* porkpy domain delete
DomainDelete ==
    /\ op = "start"
    /\ \E domain \in DomainOpts, file \in FileOpts, secrets \in CmdSecretOpts,
          id \in IdOpts, confirm \in BOOLEAN, net \in Upstream :
           Finish("delete",
                  [domain |-> domain, file |-> file, secrets |-> secrets, id |-> id,
                   confirm |-> confirm, net |-> net],
                  domain_delete_records(domain, file, secrets, id, confirm, net))

\* PorkAuth(file, secrets) constructed by a caller of the module
NewPorkAuth ==
    /\ op = "start"
    /\ \E file \in FileOpts, secrets \in SecretOpts :
           Finish("PorkAuth", [file |-> file, secrets |-> secrets],
                  PorkAuth(Start, file, secrets))

\* PorkRecord(domain, PorkAuth(file, secrets)).edit_record(...)
CallEditRecord ==
    /\ op = "start"
    /\ \E file \in FileOpts, secrets \in CmdSecretOpts, id \in IdOpts :
           Finish("edit_record", [file |-> file, secrets |-> secrets, id |-> id],
                  Bind(PorkAuth(Start, file, secrets), edit_record))

\* PorkRecord(domain, PorkAuth(file, secrets)).create_record(...)
CallCreateRecord ==
    /\ op = "start"
    /\ \E file \in FileOpts, secrets \in CmdSecretOpts, name \in NameOpts \cup {<<>>},
          ttl \in TtlOpts, priority \in PriorityOpts, net \in Upstream :
           Finish("create_record",
                  [file |-> file, secrets |-> secrets, name |-> name, ttl |-> ttl,
                   priority |-> priority, net |-> net],
                  Bind(PorkAuth(Start, file, secrets),
                       LAMBDA r : create_record(r, DOMAIN_NAME, <<"A">>, <<"1.2.3.4">>,
                                                name, ttl, priority, net)))

\* PorkRecord(domain, PorkAuth(file, secrets)).delete_record(id)
CallDeleteRecord ==
    /\ op = "start"
    /\ \E file \in FileOpts, secrets \in CmdSecretOpts, id \in IdOpts, net \in Upstream :
           Finish("delete_record", [file |-> file, secrets |-> secrets, id |-> id, net |-> net],
                  Bind(PorkAuth(Start, file, secrets),
                       LAMBDA r : delete_record(r, DOMAIN_NAME, id, net)))

\* PorkRecord(domain, PorkAuth(file, secrets)).retrieve_ssl()
CallRetrieveSsl ==
    /\ op = "start"
    /\ \E file \in FileOpts, secrets \in CmdSecretOpts, net \in Upstream :
           Finish("retrieve_ssl", [file |-> file, secrets |-> secrets, net |-> net],
                  Bind(PorkAuth(Start, file, secrets),
                       LAMBDA r : retrieve_ssl(r, DOMAIN_NAME, net)))

Next ==
    \/ Pricing
    \/ Authorized
    \/ DomainInfo
    \/ DomainCreate
    \/ DomainEdit
    \/ DomainDelete
    \/ NewPorkAuth
    \/ CallEditRecord
    \/ CallCreateRecord
    \/ CallDeleteRecord
    \/ CallRetrieveSsl

Spec == Init /\ [][Next]_vars

----------------------------------------------------------------------------
(* Properties *)

CliOps == {"pricing", "auth", "info", "create", "edit", "delete"}

\* the run got past click's own parsing of the command line
Parsed == raised # "UsageError"

HasColon(s) == \E i \in 1..Len(s) : s[i] = ":"
FirstColon(s) == CHOOSE j \in 1..Len(s) : s[j] = ":" /\ \A m \in 1..(j - 1) : s[m] # ":"
BeforeFirstColon(s) == SubSeq(s, 1, FirstColon(s) - 1)
AfterFirstColon(s) == SubSeq(s, FirstColon(s) + 1, Len(s))

\* the file PorkAuth was handed in this run
FileArg == IF op = "PorkAuth" THEN args.file ELSE ClickFile(args.file)

EnvPair == [secretapikey |-> environ.PORKPY_SECRET, apikey |-> environ.PORKPY_API]

\* C1: a delete command without --id or without --confirm fails before
\* credentials are resolved and before any POST, the id being checked first;
\* a POST is issued only with id present and confirm set, and it goes to
\* /dns/delete/{domain}/{id}.
C1_DeleteGuarded ==
    op = "delete" =>
        /\ (args.id = None \/ ~args.confirm) =>
               /\ requests = <<>>
               /\ auth = {}
               /\ opened = {}
               /\ raised # "none"
               /\ exit = 2
        /\ (Parsed /\ args.id = None) => raised = "BadOptionUsage:id"
        /\ (Parsed /\ args.id # None /\ ~args.confirm) => raised = "BadOptionUsage:confirm"
        /\ requests # <<>> =>
               /\ args.id # None
               /\ args.confirm
               /\ Len(requests) = 1
               /\ requests[1].url = Url("/dns/delete", <<args.domain, args.id>>)

C1_Witness ==
    /\ op = "delete"
    /\ args.id = None
    /\ ~args.confirm
    /\ raised = "BadOptionUsage:id"
    /\ requests = <<>>

\* C2: the credentials come from exactly one source: the explicit secret
\* string if one is given (and then no credentials file is opened), else the
\* file if one is given, else the two environment variables.
C2_Precedence ==
    op \in {"PorkAuth", "auth"} /\ Parsed =>
        /\ args.secrets # None =>
               /\ opened = {}
               /\ \A a \in auth :
                      /\ DOMAIN a = {API_KEY, SECRET_KEY}
                      /\ a.apikey \in SecretStrings
                      /\ a.secretapikey \in SecretStrings
        /\ (args.secrets = None /\ FileArg # None) =>
               /\ opened = {FileArg}
               /\ auth \subseteq {files[FileArg].data}
        /\ (args.secrets = None /\ FileArg = None) =>
               /\ opened = {}
               /\ auth = {EnvPair}

\* C3: an explicit secret string with at least one colon resolves to the
\* pair (text before the first colon, text after the first colon).
C3_SplitOnFirstColon ==
    (op = "PorkAuth" /\ args.secrets # None /\ HasColon(args.secrets)) =>
        /\ raised = "none"
        /\ auth = {[apikey |-> BeforeFirstColon(args.secrets),
                    secretapikey |-> AfterFirstColon(args.secrets)]}

\* C4: credentials resolved from a file holding a JSON object are exactly its
\* apikey and secretapikey when both are there; when either is missing the
\* resolution fails, no payload is produced and no request is sent.
C4_FileKeysRequired ==
    (/\ op \in {"PorkAuth", "auth"}
     /\ Parsed
     /\ args.secrets = None
     /\ FileArg # None
     /\ files[FileArg].exists
     /\ files[FileArg].json) =>
        IF {API_KEY, SECRET_KEY} \subseteq DOMAIN files[FileArg].data
        THEN /\ raised \in {"none", "ConnectionError"}
             /\ auth = {[apikey |-> files[FileArg].data.apikey,
                         secretapikey |-> files[FileArg].data.secretapikey]}
        ELSE /\ raised # "none"
             /\ auth = {}
             /\ requests = <<>>

PricingOf(out) == IF "pricing" \in DOMAIN out THEN out.pricing ELSE EmptyDict
SeqRange(q) == {q[i] : i \in 1..Len(q)}

\* C5: pricing with a non-empty TLD filter and a SUCCESS response prints the
\* pricing of exactly the TLDs that are both requested and in the response.
C5_PricingFilter ==
    (op = "pricing" /\ args.net = "SUCCESS" /\ Len(args.tld) > 0) =>
        /\ raised = "none"
        /\ exit = 0
        /\ Len(stdout) = 1
        /\ PricingOf(stdout[1].json)
               = Restrict(args.upstream, SeqRange(args.tld) \cap DOMAIN args.upstream)

\* C6: a create command given only domain, type and content posts to
\* /dns/create/{domain} a payload that is exactly the credentials plus type
\* and content, with no name, ttl or prio key.
C6_CreateOmitsAbsent ==
    (/\ op = "create"
     /\ args.name = None
     /\ args.ttl = None
     /\ args.priority = None
     /\ requests # <<>>) =>
        /\ requests[1].url = Url("/dns/create", <<args.domain>>)
        /\ \A a \in auth :
               requests[1].data =
                   {JsonDumps(Merge(a, [type |-> args.type, content |-> args.content]))}

\* C7: an info command with --ssl and neither type nor subdomain is not
\* rejected for its ssl flag; it posts to /ssl/retrieve/{domain}.
C7_SslRetrieved ==
    (/\ op = "info"
     /\ Parsed
     /\ args.ssl
     /\ args.type = None
     /\ args.subdomain = None) =>
        /\ raised # "BadOptionUsage:ssl"
        /\ auth # {} =>
               /\ Len(requests) = 1
               /\ requests[1].url = Url("/ssl/retrieve", <<args.domain>>)

ExactlyOneOf(type, subdomain) == (type = None) # (subdomain = None)

\* C8: an info command given exactly one of type and subdomain fails with a
\* bad-option error naming the missing one, before credentials are resolved
\* and before any request; given both or neither, that error is not raised.
C8_TypeSubdomainTogether ==
    op = "info" =>
        /\ ExactlyOneOf(args.type, args.subdomain) =>
               /\ requests = <<>>
               /\ auth = {}
               /\ opened = {}
               /\ exit = 2
               /\ Parsed =>
                      raised = (IF args.type = None THEN "BadOptionUsage:type"
                                                    ELSE "BadOptionUsage:subdomain")
        /\ ~ExactlyOneOf(args.type, args.subdomain) =>
               raised \notin {"BadOptionUsage:type", "BadOptionUsage:subdomain"}

C8_Witness ==
    /\ op = "info"
    /\ args.type # None
    /\ args.subdomain = None
    /\ raised = "BadOptionUsage:subdomain"
    /\ requests = <<>>
    /\ auth = {}

\* C9 as stated: the edit command and the record's edit operation send no
\* request, resolve no credentials, and yield one and the same advisory text
\* (delete the record and create it again).
C9_SameAdvisory ==
    /\ (op = "edit" /\ Parsed) =>
           /\ requests = <<>>
           /\ auth = {}
           /\ stdout = <<Text(EDIT_RECORD_MSG)>>
    /\ (op = "edit_record" /\ raised = "none") =>
           /\ requests = <<>>
           /\ ret = {Text(EDIT_RECORD_MSG)}

\* C9 amended: the edit command sends no request, opens no credentials file
\* and resolves no credentials, and prints its own fixed text (use the
\* website); the record's edit operation sends no request and returns a
\* different fixed text (delete the record and create it again).
C9_EditIsNoOp ==
    /\ op = "edit" =>
           /\ requests = <<>>
           /\ auth = {}
           /\ opened = {}
           /\ Parsed => (stdout = <<Text(EDIT_COMMAND_MSG)>> /\ exit = 0 /\ raised = "none")
    /\ (op = "edit_record" /\ raised = "none") =>
           /\ requests = <<>>
           /\ stdout = <<>>
           /\ ret = {Text(EDIT_RECORD_MSG)}
    /\ EDIT_COMMAND_MSG # EDIT_RECORD_MSG

C9_Witness ==
    /\ op = "edit"
    /\ args.id # None
    /\ args.secrets # None
    /\ stdout = <<Text(EDIT_COMMAND_MSG)>>
    /\ requests = <<>>

\* C10: a command that meets an error, an upstream status other than SUCCESS
\* included, ends with a non-zero exit status after at most one request.
C10_ErrorsExitNonZero ==
    /\ (op \in CliOps /\ raised # "none") =>
           /\ exit \notin {0, NoExit}
           /\ Len(requests) <= 1
    /\ (op \in CliOps \ {"edit"} /\ requests # <<>> /\ args.net = "ERROR") =>
           /\ exit \notin {0, NoExit}
           /\ Len(requests) = 1

====
